---- MODULE Spec2Model ----
(***************************************************************************)
(* Model of the talentloft matching portal (src/app.py, src/schema.py):    *)
(* the scoring function calculate_matching_score, the two ranking loops    *)
(* and the two form-submission handlers that commit Candidates and Jobs.   *)
(*                                                                         *)
(* Scores are Python floats in the source.  Every value the scorer can     *)
(* produce is a multiple of 0.25 and is exact in binary floating point, so *)
(* the model keeps scores as integers in hundredths (4.0 is 400).          *)
(***************************************************************************)
EXTENDS Integers, Sequences, FiniteSets, TLC

VARIABLES jobs, candidates, msgs, matches, job, candidate, score, pc

vars == <<jobs, candidates, msgs, matches, job, candidate, score, pc>>

(***************************************************************************)
(* Bounds of the model.                                                    *)
(***************************************************************************)
MaxSkills == 2       \* skills held by one input of the scorer
MaxSelected == 2     \* skills selected in one form
MaxRecords == 3      \* records committed by the two flows together
MaxEntities == 6     \* entities handed to one ranking loop

(***************************************************************************)
(* Python values.  Every value is a record of the same shape so that       *)
(* values of different Python types can be compared with ==:               *)
(* t is the type, n the integer payload, s the string payload, name the    *)
(* member name of an enum member.                                          *)
(***************************************************************************)
PyNone == [t |-> "NoneType", n |-> 0, s |-> "", name |-> ""]
PyInt(i) == [t |-> "int", n |-> i, s |-> "", name |-> ""]
PyStr(str) == [t |-> "str", n |-> 0, s |-> str, name |-> ""]
PyList == [t |-> "list", n |-> 0, s |-> "", name |-> ""]

\* a member of a plain enum.Enum class: equal only to itself
LocationType == { [t |-> "LocationType", n |-> 0, s |-> "Remote", name |-> "REMOTE"],
                  [t |-> "LocationType", n |-> 0, s |-> "Hybrid", name |-> "HYBRID"],
                  [t |-> "LocationType", n |-> 0, s |-> "On-site", name |-> "ON_SITE"] }

SkillLevel == { [t |-> "SkillLevel", n |-> 1, s |-> "", name |-> "BEGINNER"],
                [t |-> "SkillLevel", n |-> 2, s |-> "", name |-> "INTERMEDIATE"],
                [t |-> "SkillLevel", n |-> 3, s |-> "", name |-> "ADVANCED"],
                [t |-> "SkillLevel", n |-> 4, s |-> "", name |-> "EXPERT"] }

CareerPreference == { [t |-> "CareerPreference", n |-> 0, s |-> "Upward Mobility", name |-> "UPWARD_MOBILITY"],
                      [t |-> "CareerPreference", n |-> 0, s |-> "Lateral Move", name |-> "LATERAL_MOVE"],
                      [t |-> "CareerPreference", n |-> 0, s |-> "Career Change", name |-> "CAREER_CHANGE"] }

Availability == { [t |-> "Availability", n |-> 0, s |-> "Immediate", name |-> "IMMEDIATE"],
                  [t |-> "Availability", n |-> 0, s |-> "Within 1 Month", name |-> "WITHIN_1_MONTH"],
                  [t |-> "Availability", n |-> 0, s |-> "Within 3 Months", name |-> "WITHIN_3_MONTHS"] }

Member(cls, nm) == CHOOSE m \in cls : m.name = nm

\* Python ==  on the values above: same type and same payload; an Enum
\* member never equals a str, whatever its value
PyEq(a, b) == a = b

\* Python  x in [a, b]
PyInList(x, lst) == \E i \in 1..Len(lst) : PyEq(x, lst[i])

(***************************************************************************)
(* The Skill catalog (rows of table skills).  The portal never writes it.  *)
(***************************************************************************)
Skill(id, type, group, level) ==
    [id |-> id, skill_type |-> type, skill_group |-> group, skill_level |-> Member(SkillLevel, level)]

Catalog == { Skill(1, "Programming", "Python", "ADVANCED"),
             Skill(2, "Programming", "Python", "BEGINNER"),
             Skill(3, "Data", "SQL", "EXPERT") }

(***************************************************************************)
(* calculate_matching_score                                                *)
(***************************************************************************)
\* {(s.skill_group, s.skill_level) for s in x.skills}
SkillPairs(skills) == { <<s.skill_group, s.skill_level>> : s \in skills }

\* {sg for sg, _ in pairs}
SkillGroups(pairs) == { p[1] : p \in pairs }

full_matches(j, c) == Cardinality(SkillPairs(j.skills) \cap SkillPairs(c.skills))

\* partial_matches without the exact matches taken off
partial_matches_unnetted(j, c) ==
    Cardinality(SkillGroups(SkillPairs(j.skills)) \cap SkillGroups(SkillPairs(c.skills)))

partial_matches(j, c) ==
    Cardinality(SkillGroups(SkillPairs(j.skills)) \cap SkillGroups(SkillPairs(c.skills)))
        - full_matches(j, c)

\* (full_matches * 10 + partial_matches * 5) * 0.4, in hundredths
skill_score(j, c) == (full_matches(j, c) * 10 + partial_matches(j, c) * 5) * 40

\* the decimal strings int() accepts, as far as the model's inputs go
DigitStrings == <<"0", "1", "2", "3", "4", "5", "6", "7", "8", "9">>

\* int(x): the integer, or the exception int() raises
IntConv(x) ==
    CASE x.t = "int" -> [exc |-> "none", n |-> x.n]
      [] x.t = "str" ->
            IF \E d \in 1..Len(DigitStrings) : DigitStrings[d] = x.s
            THEN [exc |-> "none", n |-> (CHOOSE d \in 1..Len(DigitStrings) : DigitStrings[d] = x.s) - 1]
            ELSE [exc |-> "ValueError", n |-> 0]
      [] OTHER -> [exc |-> "TypeError", n |-> 0]

\* ExpValue without the None test: int(None) raises TypeError
ExpValueNoneUnhandled(x) == IntConv(x)

\* int(x) if x is not None else 0
ExpValue(x) == IF x # PyNone THEN IntConv(x) ELSE [exc |-> "none", n |-> 0]

\* the try/except around the experience comparison: the sub-score in
\* hundredths and the exception that leaves the block, if any
exp_score(j, c) ==
    LET candidate_exp == ExpValue(c.total_experience)
        job_exp == ExpValue(j.required_experience)
        raised == IF candidate_exp.exc # "none" THEN candidate_exp.exc ELSE job_exp.exc
    IN  IF raised = "none"
        THEN [exc |-> "none", v |-> IF candidate_exp.n >= job_exp.n THEN 10 * 30 ELSE (-5) * 30]
        ELSE IF raised \in {"TypeError", "ValueError"}
             THEN [exc |-> "none", v |-> (-5) * 30]
             ELSE [exc |-> raised, v |-> 0]

career_score(j, c) ==
    IF PyEq(j.career_preference, c.career_preference) THEN 10 * 20 ELSE (-10) * 20

location_score(j, c) ==
    IF PyEq(j.location_type, c.preferred_location) THEN 10
    ELSE IF PyInList(PyStr("Hybrid"), <<j.location_type, c.preferred_location>>) THEN 5
    ELSE 0

salary_overlap(j, c) ==
    c.expected_salary_min <= j.salary_max /\ c.expected_salary_max >= j.salary_min

\* salary_score with the 20000 margin compared strictly
salary_score_strict(j, c) ==
    IF salary_overlap(j, c) THEN 10
    ELSE IF c.expected_salary_min < j.salary_max + 20000 THEN 5
    ELSE 0

salary_score(j, c) ==
    IF salary_overlap(j, c) THEN 10
    ELSE IF c.expected_salary_min <= j.salary_max + 20000 THEN 5
    ELSE 0

location_salary_score(j, c) == (location_score(j, c) + salary_score(j, c)) * 5

\* calculate_matching_score with the total clamped to 0..10
calculate_matching_score_clamped(j, c) ==
    LET e == exp_score(j, c)
        sum == skill_score(j, c) + e.v + career_score(j, c) + location_salary_score(j, c)
    IN  [exc |-> e.exc,
         full_matches |-> full_matches(j, c),
         partial_matches |-> partial_matches(j, c),
         location |-> location_score(j, c),
         salary |-> salary_score(j, c),
         skill |-> skill_score(j, c),
         exp |-> e.v,
         career |-> career_score(j, c),
         location_salary |-> location_salary_score(j, c),
         total |-> IF sum > 1000 THEN 1000 ELSE IF sum < 0 THEN 0 ELSE sum]

\* the call: the exception it raises ("none" when it returns), the returned
\* total and the locals it was summed from
calculate_matching_score(j, c) ==
    LET e == exp_score(j, c)
    IN  [exc |-> e.exc,
         full_matches |-> full_matches(j, c),
         partial_matches |-> partial_matches(j, c),
         location |-> location_score(j, c),
         salary |-> salary_score(j, c),
         skill |-> skill_score(j, c),
         exp |-> e.v,
         career |-> career_score(j, c),
         location_salary |-> location_salary_score(j, c),
         total |-> skill_score(j, c) + e.v + career_score(j, c) + location_salary_score(j, c)]

(***************************************************************************)
(* The ranking loops (app.py 149-157 and 242-250)                          *)
(***************************************************************************)
\* the slice bound of  matches[:5]
TopK == 5

Min(a, b) == IF a <= b THEN a ELSE b

\* Insert that puts x in front of the elements of equal score
InsertBeforeEqual(sorted, x) ==
    LET ahead == Cardinality({i \in 1..Len(sorted) : sorted[i][2] > x[2]})
    IN  SubSeq(sorted, 1, ahead) \o <<x>> \o SubSeq(sorted, ahead + 1, Len(sorted))

\* one step of list.sort(key=score, reverse=True): x goes behind every
\* element whose score is at least its own, so equal scores keep their order
Insert(sorted, x) ==
    LET ahead == Cardinality({i \in 1..Len(sorted) : sorted[i][2] >= x[2]})
    IN  SubSeq(sorted, 1, ahead) \o <<x>> \o SubSeq(sorted, ahead + 1, Len(sorted))

RECURSIVE SortByScoreDesc(_)
SortByScoreDesc(ms) ==
    IF ms = <<>> THEN <<>>
    ELSE Insert(SortByScoreDesc(SubSeq(ms, 1, Len(ms) - 1)), ms[Len(ms)])

\* seq[:k]
Slice(seq, k) == SubSeq(seq, 1, Min(k, Len(seq)))

\* for job in jobs: matches.append((job, score)); sort; matches[:5]
\* exc is the exception a scorer call raised, "none" when all returned
JobMatches(js, c) ==
    LET calls == [i \in 1..Len(js) |-> calculate_matching_score(js[i], c)]
        scored == [i \in 1..Len(js) |-> <<js[i], calls[i].total>>]
    IN  IF \E i \in 1..Len(js) : calls[i].exc # "none"
        THEN [exc |-> "Exception", shown |-> <<>>]
        ELSE [exc |-> "none", shown |-> Slice(SortByScoreDesc(scored), TopK)]

\* for candidate in candidates: matches.append((candidate, score)); sort; matches[:5]
CandidateMatches(j, cs) ==
    LET calls == [i \in 1..Len(cs) |-> calculate_matching_score(j, cs[i])]
        scored == [i \in 1..Len(cs) |-> <<cs[i], calls[i].total>>]
    IN  IF \E i \in 1..Len(cs) : calls[i].exc # "none"
        THEN [exc |-> "Exception", shown |-> <<>>]
        ELSE [exc |-> "none", shown |-> Slice(SortByScoreDesc(scored), TopK)]

(***************************************************************************)
(* Helpers of the form handlers.  A form string that is taken apart again  *)
(* is a sequence of pieces whose concatenation is the string.              *)
(***************************************************************************)
\* f"{s.skill_group} ({s.skill_level.name})"
FormatSkill(s) == <<s.skill_group, " (", s.skill_level.name, ")">>

\* skill_str.split(" ("): the parts between the occurrences of the separator
RECURSIVE Split(_)
Split(str) ==
    IF \A i \in 1..Len(str) : str[i] # " (" THEN <<str>>
    ELSE LET k == CHOOSE i \in 1..Len(str) :
                     str[i] = " (" /\ \A h \in 1..(i - 1) : str[h] # " ("
         IN  <<SubSeq(str, 1, k - 1)>> \o Split(SubSeq(str, k + 1, Len(str)))

\* str.upper() on one piece
Upper(piece) ==
    CASE piece = "guru" -> "GURU"
      [] piece = "expert" -> "EXPERT"
      [] OTHER -> piece

\* username.strip() / title.strip()
Strip(str) ==
    CASE str = " ann " -> "ann"
      [] OTHER -> str

\* session.query(Skill).filter(group, level).first(): a row or None
FindSkill(skill_name, level) ==
    LET rows == {s \in Catalog : <<s.skill_group>> = skill_name /\ s.skill_level = level}
    IN  IF rows = {} THEN PyNone ELSE CHOOSE s \in rows : \A r \in rows : s.id <= r.id

\* the handler without the test for an empty selection
NoneSelectedIgnored(selected) == FALSE

\* not selected_skills
NoneSelected(selected) == selected = <<>>

\* an exception: its class and the text str(e) gives, in pieces
NoExc == [type |-> "none", text |-> <<>>]
Exc(type, text) == [type |-> type, text |-> text]

\* the loop over the selected skill strings: the skills appended so far and
\* the exception that ended the loop, NoExc when it ran through; db is the
\* database call that fails in this submission
RECURSIVE AddSkills(_, _, _)
AddSkills(selected, db, acc) ==
    IF selected = <<>> THEN [exc |-> NoExc, skills |-> acc]
    ELSE LET parts == Split(selected[1])
         IN  IF Len(parts) # 2
             THEN [exc |-> Exc("ValueError", <<"wrong number of values to unpack">>), skills |-> acc]
             ELSE LET skill_name == parts[1]
                      level_str == SubSeq(parts[2], 1, Len(parts[2]) - 1)
                      level_up == [i \in 1..Len(level_str) |-> Upper(level_str[i])]
                  IN  IF ~ \E m \in SkillLevel : <<m.name>> = level_up
                      THEN [exc |-> Exc("KeyError", level_up), skills |-> acc]
                      ELSE IF db = "lookup"
                      THEN [exc |-> Exc("OperationalError", <<"query failed">>), skills |-> acc]
                      ELSE LET level == CHOOSE m \in SkillLevel : <<m.name>> = level_up
                               skill == FindSkill(skill_name, level)
                           IN  IF skill = PyNone
                               THEN [exc |-> Exc("ValueError", <<"Invalid skill: ">> \o selected[1]),
                                     skills |-> acc]
                               ELSE AddSkills(Tail(selected), db, acc \cup {skill})

\* validate_salary on two ints
validate_salary(min_salary, max_salary) ==
    IF min_salary > max_salary
    THEN Exc("ValueError", <<"Minimum salary cannot be greater than maximum salary">>)
    ELSE NoExc

\* validate_experience: int(exp), negative rejected, every failure a ValueError
validate_experience(exp) ==
    LET r == IntConv(exp)
    IN  IF r.exc # "none" \/ r.n < 0
        THEN [exc |-> Exc("ValueError", <<"Experience must be a positive integer">>), n |-> 0]
        ELSE [exc |-> NoExc, n |-> r.n]

\* EnumClass(value): the member with that value; None stands for the
\* ValueError the call raises when there is none
ByValue(cls, str) ==
    IF \E m \in cls : m.s = str THEN CHOOSE m \in cls : m.s = str ELSE PyNone

NotAMember(member) ==
    IF member = PyNone THEN Exc("ValueError", <<"not a valid member">>) ELSE NoExc

(***************************************************************************)
(* The form handlers.  A submission is one run of the script: the handler  *)
(* with everything it calls.  db names the database call that raises in    *)
(* this run ("ok": none does); the handlers' except Exception branch with  *)
(* its rollback is there for these.                                        *)
(***************************************************************************)
DbOutcomes == {"ok", "lookup", "commit", "query"}

\* the first exception of a sequence of steps
FirstExc(excs) ==
    IF \A i \in 1..Len(excs) : excs[i] = NoExc THEN NoExc
    ELSE excs[CHOOSE i \in 1..Len(excs) :
                  excs[i] # NoExc /\ \A h \in 1..(i - 1) : excs[h] = NoExc]

\* a line the handler prints: st.success(head) or st.error(f"{head}: {str(e)}")
Success(head) == [head |-> head, detail |-> <<>>]

\* lines 164-168
CandidateError(exc) ==
    [head |-> IF exc.type = "ValueError" THEN "Invalid input" ELSE "Error creating profile",
     detail |-> exc.text]

\* lines 257-261
JobError(exc) ==
    [head |-> IF exc.type = "ValueError" THEN "Invalid input" ELSE "Error posting job",
     detail |-> exc.text]

\* lines 103-168: the messages shown, the records committed (none or one)
\* and the matches displayed
CandidateSubmission(form, db, js, cs) ==
    LET exp == validate_experience(form.total_experience)
        sal == validate_salary(form.salary_min, form.salary_max)
        pref_location == ByValue(LocationType, form.pref_location_str)
        career_pref == ByValue(CareerPreference, form.career_pref_str)
        added == AddSkills(form.selected_skills, db, {})
        before == FirstExc(<<exp.exc, sal, NotAMember(pref_location), NotAMember(career_pref),
                             IF NoneSelected(form.selected_skills)
                             THEN Exc("ValueError", <<"Please select at least one skill">>)
                             ELSE NoExc,
                             added.exc>>)
        new_candidate == [id |-> Len(cs) + 1,
                          username |-> Strip(form.username),
                          total_experience |-> PyInt(exp.n),
                          preferred_location |-> pref_location,
                          expected_salary_min |-> form.salary_min,
                          expected_salary_max |-> form.salary_max,
                          career_preference |-> career_pref,
                          skills |-> added.skills]
        commit == IF db = "commit" THEN Exc("OperationalError", <<"commit failed">>)
                  ELSE IF \E i \in 1..Len(cs) : cs[i].username = new_candidate.username
                       THEN Exc("IntegrityError", <<"duplicate username">>)
                       ELSE NoExc
        found == IF db = "query" THEN [exc |-> "OperationalError", shown |-> <<>>]
                 ELSE JobMatches(js, new_candidate)
    IN  IF before # NoExc
        THEN [msgs |-> <<CandidateError(before)>>, committed |-> <<>>, shown |-> <<>>]
        ELSE IF commit # NoExc
        THEN [msgs |-> <<CandidateError(commit)>>, committed |-> <<>>, shown |-> <<>>]
        ELSE IF found.exc # "none"
        THEN [msgs |-> <<Success("Profile created successfully!"),
                         CandidateError(Exc(found.exc, <<"query failed">>))>>,
              committed |-> <<new_candidate>>, shown |-> <<>>]
        ELSE [msgs |-> <<Success("Profile created successfully!")>>,
              committed |-> <<new_candidate>>, shown |-> found.shown]

\* lines 196-261
JobSubmission(form, db, js, cs) ==
    LET exp == validate_experience(form.req_exp)
        sal == validate_salary(form.salary_min, form.salary_max)
        location_type == ByValue(LocationType, form.location_str)
        availability == ByValue(Availability, form.availability_str)
        career_pref == ByValue(CareerPreference, form.career_pref_str)
        added == AddSkills(form.required_skills, db, {})
        before == FirstExc(<<exp.exc, sal, NotAMember(location_type), NotAMember(availability),
                             NotAMember(career_pref),
                             IF NoneSelected(form.required_skills)
                             THEN Exc("ValueError", <<"Please select at least one required skill">>)
                             ELSE NoExc,
                             added.exc>>)
        new_job == [id |-> Len(js) + 1,
                    title |-> Strip(form.title),
                    required_experience |-> PyInt(exp.n),
                    location_type |-> location_type,
                    salary_min |-> form.salary_min,
                    salary_max |-> form.salary_max,
                    availability |-> availability,
                    career_preference |-> career_pref,
                    skills |-> added.skills]
        commit == IF db = "commit" THEN Exc("OperationalError", <<"commit failed">>) ELSE NoExc
        found == IF db = "query" THEN [exc |-> "OperationalError", shown |-> <<>>]
                 ELSE CandidateMatches(new_job, cs)
    IN  IF before # NoExc
        THEN [msgs |-> <<JobError(before)>>, committed |-> <<>>, shown |-> <<>>]
        ELSE IF commit # NoExc
        THEN [msgs |-> <<JobError(commit)>>, committed |-> <<>>, shown |-> <<>>]
        ELSE IF found.exc # "none"
        THEN [msgs |-> <<Success("Job posted successfully!"),
                         JobError(Exc(found.exc, <<"query failed">>))>>,
              committed |-> <<new_job>>, shown |-> <<>>]
        ELSE [msgs |-> <<Success("Job posted successfully!")>>,
              committed |-> <<new_job>>, shown |-> found.shown]

(***************************************************************************)
(* What the forms can send.                                                *)
(***************************************************************************)
\* the multiselect options in the order the form lists them: two catalog
\* rows as the form prints them, a string with a level name SkillLevel does
\* not have, and a row that has left the catalog since the form was drawn
SkillOptions == << FormatSkill(Skill(1, "Programming", "Python", "ADVANCED")),
                   <<"SQL", " (", "guru", ")">>,
                   FormatSkill(Skill(9, "Programming", "Go", "EXPERT")),
                   FormatSkill(Skill(3, "Data", "SQL", "EXPERT")) >>

\* the options at the positions picked, in list order
RECURSIVE Picked(_, _)
Picked(positions, from) ==
    IF from > Len(SkillOptions) THEN <<>>
    ELSE (IF from \in positions THEN <<SkillOptions[from]>> ELSE <<>>)
         \o Picked(positions, from + 1)

\* the selections of at most MaxSelected options
Selections ==
    { Picked(P, 1) : P \in { Q \in SUBSET (1..Len(SkillOptions)) : Cardinality(Q) <= MaxSelected } }

CandidateForms ==
    { [username |-> u, total_experience |-> PyInt(5), pref_location_str |-> "On-site",
       salary_min |-> sal[1], salary_max |-> sal[2],
       career_pref_str |-> "Upward Mobility", selected_skills |-> sel]
      : u \in {" ann ", "bob"},
        sal \in {<<90000, 110000>>, <<110000, 90000>>},
        sel \in Selections }

JobForms ==
    { [title |-> "dev", req_exp |-> PyInt(3), location_str |-> "On-site",
       salary_min |-> sal[1], salary_max |-> sal[2],
       availability_str |-> "Immediate", career_pref_str |-> "Upward Mobility",
       required_skills |-> sel]
      : sal \in {<<80000, 120000>>, <<120000, 80000>>},
        sel \in Selections }

(***************************************************************************)
(* The portal: the store and the last submission's output.                 *)
(***************************************************************************)
Init ==
    /\ jobs = <<>>
    /\ candidates = <<>>
    /\ msgs = <<>>
    /\ matches = <<>>
    /\ job = PyNone
    /\ candidate = PyNone
    /\ score = PyNone
    /\ pc = "portal"

SubmitCandidate ==
    /\ pc = "portal"
    /\ Len(jobs) + Len(candidates) < MaxRecords
    /\ \E form \in CandidateForms, db \in DbOutcomes :
          \E r \in {CandidateSubmission(form, db, jobs, candidates)} :
              /\ candidates' = candidates \o r.committed
              /\ msgs' = r.msgs
              /\ matches' = r.shown
    /\ UNCHANGED <<jobs, job, candidate, score, pc>>

SubmitJob ==
    /\ pc = "portal"
    /\ Len(jobs) + Len(candidates) < MaxRecords
    /\ \E form \in JobForms, db \in DbOutcomes :
          \E r \in {JobSubmission(form, db, jobs, candidates)} :
              /\ jobs' = jobs \o r.committed
              /\ msgs' = r.msgs
              /\ matches' = r.shown
    /\ UNCHANGED <<candidates, job, candidate, score, pc>>

Next == SubmitCandidate \/ SubmitJob

Spec == Init /\ [][Next]_vars

(***************************************************************************)
(* calculate_matching_score on its own: one call on a Job and a Candidate  *)
(* drawn from bounded sets.  The experience columns also take the values   *)
(* the try/except of lines 26-31 is written for.                           *)
(***************************************************************************)
ScoreSkillSets == { S \in SUBSET Catalog : Cardinality(S) >= 1 /\ Cardinality(S) <= MaxSkills }

ScoreJobs ==
    { [id |-> 1, title |-> "dev", required_experience |-> e, location_type |-> l,
       salary_min |-> 80000, salary_max |-> 120000,
       availability |-> Member(Availability, "IMMEDIATE"),
       career_preference |-> Member(CareerPreference, "UPWARD_MOBILITY"),
       skills |-> S]
      : e \in {PyInt(0), PyInt(3), PyNone, PyStr("abc")}, l \in LocationType, S \in ScoreSkillSets }

ScoreCandidates ==
    { [id |-> 1, username |-> "ann", total_experience |-> e, preferred_location |-> l,
       expected_salary_min |-> sal[1], expected_salary_max |-> sal[2],
       career_preference |-> cp, skills |-> S]
      : e \in {PyInt(2), PyInt(5), PyNone, PyStr("abc"), PyStr("4"), PyList},
        l \in LocationType,
        sal \in {<<90000, 110000>>, <<30000, 70000>>, <<130000, 150000>>,
                 <<140000, 150000>>, <<150000, 160000>>},
        cp \in {Member(CareerPreference, "UPWARD_MOBILITY"), Member(CareerPreference, "LATERAL_MOVE")},
        S \in ScoreSkillSets }

ScoreInit ==
    /\ jobs = <<>>
    /\ candidates = <<>>
    /\ msgs = <<>>
    /\ matches = <<>>
    /\ job \in ScoreJobs
    /\ candidate \in ScoreCandidates
    /\ score = PyNone
    /\ pc = "call"

ScoreCall ==
    /\ pc = "call"
    /\ score' = calculate_matching_score(job, candidate)
    /\ pc' = "returned"
    /\ UNCHANGED <<jobs, candidates, msgs, matches, job, candidate>>

ScoreNext == ScoreCall

ScoreSpec == ScoreInit /\ [][ScoreNext]_vars

(***************************************************************************)
(* The ranking loops on their own: the rows a query returned, in the order *)
(* it returned them, ranked for one subject.                               *)
(***************************************************************************)
RankSkillSets == { {Skill(1, "Programming", "Python", "ADVANCED")},
                   {Skill(3, "Data", "SQL", "EXPERT")},
                   {Skill(1, "Programming", "Python", "ADVANCED"), Skill(3, "Data", "SQL", "EXPERT")} }

RankUsernames == <<"u1", "u2", "u3", "u4", "u5", "u6", "u7", "u8">>

RankJob(i, S) ==
    [id |-> i, title |-> "dev", required_experience |-> PyInt(3),
     location_type |-> Member(LocationType, "ON_SITE"),
     salary_min |-> 80000, salary_max |-> 120000,
     availability |-> Member(Availability, "IMMEDIATE"),
     career_preference |-> Member(CareerPreference, "UPWARD_MOBILITY"),
     skills |-> S]

RankCandidate(i, S) ==
    [id |-> i, username |-> RankUsernames[i], total_experience |-> PyInt(5),
     preferred_location |-> Member(LocationType, "ON_SITE"),
     expected_salary_min |-> 90000, expected_salary_max |-> 110000,
     career_preference |-> Member(CareerPreference, "UPWARD_MOBILITY"),
     skills |-> S]

\* the lists of at most MaxEntities rows, row i with primary key i
RankLists == UNION { [1..n -> RankSkillSets] : n \in 0..MaxEntities }

RankInit ==
    /\ msgs = <<>>
    /\ matches = <<>>
    /\ score = PyNone
    /\ pc = "rank"
    /\ \E rows \in RankLists, S \in RankSkillSets :
          \/ /\ jobs = [i \in 1..Len(rows) |-> RankJob(i, rows[i])]
             /\ candidates = <<>>
             /\ job = PyNone
             /\ candidate = RankCandidate(Len(rows) + 1, S)
          \/ /\ jobs = <<>>
             /\ candidates = [i \in 1..Len(rows) |-> RankCandidate(i, rows[i])]
             /\ job = RankJob(Len(rows) + 1, S)
             /\ candidate = PyNone

\* lines 149-157 for the subject candidate
RankJobs ==
    /\ pc = "rank"
    /\ candidate # PyNone
    /\ matches' = JobMatches(jobs, candidate).shown
    /\ pc' = "ranked"
    /\ UNCHANGED <<jobs, candidates, msgs, job, candidate, score>>

\* lines 242-250 for the subject job
RankCandidates ==
    /\ pc = "rank"
    /\ job # PyNone
    /\ matches' = CandidateMatches(job, candidates).shown
    /\ pc' = "ranked"
    /\ UNCHANGED <<jobs, candidates, msgs, job, candidate, score>>

RankNext == RankJobs \/ RankCandidates

RankSpec == RankInit /\ [][RankNext]_vars

(***************************************************************************)
(* Claims.                                                                 *)
(***************************************************************************)
Hybrid == Member(LocationType, "HYBRID")
OnSite == Member(LocationType, "ON_SITE")

\* C1 (as claimed): the location score is 10 when job.location_type equals
\* candidate.preferred_location, else 5 when either of the two is HYBRID,
\* else 0; one side HYBRID, the other ON_SITE and a salary score of 5 give
\* location_salary = 0.5.
C1_LocationScoreAsClaimed ==
    pc = "returned" =>
        /\ score.location =
              IF job.location_type = candidate.preferred_location THEN 10
              ELSE IF job.location_type = Hybrid \/ candidate.preferred_location = Hybrid THEN 5
              ELSE 0
        /\ ( /\ {job.location_type, candidate.preferred_location} = {Hybrid, OnSite}
             /\ score.salary = 5 ) => score.location_salary = 50

\* the years an experience value stands for where int() accepts it
C2_Accepted(x) == x = PyNone \/ x.t = "int" \/ x = PyStr("4")
C2_Years(x) == IF x = PyNone THEN 0 ELSE IF x = PyStr("4") THEN 4 ELSE x.n

C3_J == { <<s.skill_group, s.skill_level>> : s \in job.skills }
C3_C == { <<s.skill_group, s.skill_level>> : s \in candidate.skills }
C3_Full == Cardinality({ p \in C3_J : p \in C3_C })
C3_SharedGroups == { g \in {p[1] : p \in C3_J} : \E q \in C3_C : q[1] = g }
C3_Partial == Cardinality(C3_SharedGroups) - C3_Full

\* C3: for non-empty skill sets the skill sub-score is
\* (full_matches*10 + partial_matches*5)*0.4 with full_matches = |J /\ C|
\* and partial_matches = |groups(J) /\ groups(C)| - full_matches; one
\* shared exact pair and nothing else gives 4.0, one shared group at
\* differing levels and nothing else gives 2.0.
C3_SkillScore ==
    pc = "returned" =>
        /\ score.full_matches = C3_Full
        /\ score.partial_matches = C3_Partial
        /\ score.skill = (C3_Full * 10 + C3_Partial * 5) * 40
        /\ (C3_Full = 1 /\ Cardinality(C3_SharedGroups) = 1) => score.skill = 400
        /\ (C3_Full = 0 /\ Cardinality(C3_SharedGroups) = 1) => score.skill = 200

\* the partial match: one group shared at differing levels, nothing else
C3_Witness ==
    /\ pc = "returned"
    /\ Cardinality(job.skills) = 1
    /\ Cardinality(candidate.skills) = 1
    /\ C3_Full = 0
    /\ C3_Partial = 1
    /\ score.skill = 200

\* the first n elements of the ranking a stable descending sort gives are
\* fixed by: each is an input row with its score, scores never rise, rows of
\* equal score stand in input order (primary keys rise along the input),
\* and every row left out ranks behind every row shown
C4_Ranked(rows, subjectScore(_)) ==
    /\ Len(matches) = Min(5, Len(rows))
    /\ \A k \in 1..Len(matches) :
          \E i \in 1..Len(rows) :
             matches[k] = <<rows[i], subjectScore(rows[i])>>
    /\ \A a, b \in 1..Len(matches) :
          a < b => \/ matches[a][2] > matches[b][2]
                   \/ matches[a][2] = matches[b][2] /\ matches[a][1].id < matches[b][1].id
    /\ \A i \in 1..Len(rows) :
          (\A k \in 1..Len(matches) : matches[k][1] # rows[i]) =>
              \A k \in 1..Len(matches) :
                 \/ matches[k][2] > subjectScore(rows[i])
                 \/ matches[k][2] = subjectScore(rows[i]) /\ matches[k][1].id < rows[i].id

C4_JobScore(j) == calculate_matching_score(j, candidate).total
C4_CandidateScore(c) == calculate_matching_score(job, c).total

C5_SalaryScore ==
    ( /\ pc = "returned"
      /\ job.salary_min <= job.salary_max
      /\ candidate.expected_salary_min <= candidate.expected_salary_max ) =>
        score.salary =
            IF /\ candidate.expected_salary_min <= job.salary_max
               /\ candidate.expected_salary_max >= job.salary_min
            THEN 10
            ELSE IF candidate.expected_salary_min <= job.salary_max + 20000 THEN 5
            ELSE 0

\* the candidate asking exactly 20000 above the job's maximum scored 5
C5_Witness ==
    /\ pc = "returned"
    /\ candidate.expected_salary_min = job.salary_max + 20000
    /\ score.salary = 5

\* the end-to-end pair of the specification
C6_Example ==
    /\ job.skills = {Skill(1, "Programming", "Python", "ADVANCED")}
    /\ candidate.skills = job.skills
    /\ job.required_experience = PyInt(3)
    /\ candidate.total_experience = PyInt(5)
    /\ job.career_preference = candidate.career_preference
    /\ job.location_type = OnSite
    /\ candidate.preferred_location = OnSite
    /\ job.salary_min = 80000 /\ job.salary_max = 120000
    /\ candidate.expected_salary_min = 90000 /\ candidate.expected_salary_max = 110000

\* C6: the returned score is the unclamped sum skill + experience + career
\* (+2.0 when the career preferences are equal, else -2.0) +
\* (location + salary)*0.05; the end-to-end pair scores 10.0.
C6_FinalScore ==
    pc = "returned" =>
        /\ score.exc = "none"
        /\ score.total =
              score.skill + score.exp
              + (IF job.career_preference = candidate.career_preference THEN 200 ELSE -200)
              + (score.location + score.salary) * 5
        /\ C6_Example => score.total = 1000

\* the end-to-end pair scored 10.0
C6_Witness == pc = "returned" /\ C6_Example /\ score.total = 1000

C7_Skilled(record) == record.skills # {} /\ \A s \in record.skills : s \in Catalog

\* C7: every committed Job and Candidate has at least one Skill and each of
\* its Skills is a row of the catalog, whatever was submitted.
C7_SkillsInvariant ==
    /\ \A i \in 1..Len(jobs) : C7_Skilled(jobs[i])
    /\ \A i \in 1..Len(candidates) : C7_Skilled(candidates[i])

\* a Job and a Candidate are stored and the last submission was turned
\* down for choosing no skill
C7_Witness ==
    /\ pc = "portal"
    /\ Len(jobs) = 1 /\ Len(candidates) = 1
    /\ msgs = <<[head |-> "Invalid input", detail |-> <<"Please select at least one skill">>]>>

C9_Errors == {"Invalid input", "Error creating profile", "Error posting job"}
C9_Successes == {"Profile created successfully!", "Job posted successfully!"}

\* C9 (as claimed): a submission that ends by reporting an error has
\* committed nothing, and a record is committed only by a submission that
\* reports success.
C9_ErrorMeansNoCommit ==
    [][ /\ (msgs' # <<>> /\ msgs'[Len(msgs')].head \in C9_Errors) =>
              (jobs' = jobs /\ candidates' = candidates)
        /\ (jobs' # jobs \/ candidates' # candidates) =>
              \E k \in 1..Len(msgs') : msgs'[k].head \in C9_Successes ]_vars

\* C10 (as claimed): partial_matches is never negative and the skill
\* sub-score is never negative, also when a skill group appears at several
\* levels on a side.
C10_NonNegativeAsClaimed ==
    pc = "returned" => (score.partial_matches >= 0 /\ score.skill >= 0)

====
